---------------------------- MODULE Spec2Model ----------------------------
(***************************************************************************)
(* A model of the info-agent: the LangGraph ReAct loop of agent.py         *)
(* (agent_node, should_continue, the tools node, run_agent), the response  *)
(* formatter format_response and the two hosting surfaces (the CLI loop of *)
(* agent.py and the send handler of streamlit_app.py).                     *)
(*                                                                         *)
(* Text is a sequence of tokens.  A token is a record [ch, doc]: ch is a   *)
(* character (a letter "a", a blank, a newline, punctuation, "backtick"    *)
(* for the grave accent), or a whole                                       *)
(* word that the formatter's regular expressions name ("final", "answer",  *)
(* "thoughts", "thinking"; the patterns are case-insensitive, a word token *)
(* stands for the word in any case), or a JSON document ("json", with the  *)
(* parsed document in doc), or the text a tool returned ("output").        *)
(***************************************************************************)
EXTENDS Integers, Sequences, FiniteSets, TLC

VARIABLES
    surface,          \* the hosting surface of this process: "cli" or "ui"
    process,          \* "serving", "exited" (exit/quit) or "crashed"
    pc,               \* where the current turn is
    messages,         \* AgentState["messages"] of the running graph
    iteration_count,  \* AgentState["iteration_count"]
    prompt,           \* the message list of the latest llm_with_tools.invoke
    llm_calls,        \* model invocations made in the current turn
    tool_rounds,      \* executions of the tools node in the current turn
    raw_answer,       \* run_agent's raw_answer
    answer,           \* what run_agent returned (or raised)
    chat_history,     \* st.session_state.chat_history
    shown,            \* the answer run_agent printed in this turn (the CLI's output)
    turns,            \* turns started by the surface
    raw,              \* format_response called on its own: the argument
    formatted,        \* and what the call did
    runs              \* run_agent calls in flight at once: the state of each

vars == <<surface, process, pc, messages, iteration_count, prompt, llm_calls,
          tool_rounds, raw_answer, answer, chat_history, shown, turns, raw,
          formatted, runs>>

loopVars == <<surface, process, pc, messages, iteration_count, prompt,
              llm_calls, tool_rounds, raw_answer, answer, chat_history, shown,
              turns>>

-----------------------------------------------------------------------------
(* Bounds of the model *)

\* turns one process serves
MaxTurns == 2
\* segments a raw text handed to format_response is made of
MaxSegs == 3

\* run_agent calls in flight at the same time
MaxRuns == 2

-----------------------------------------------------------------------------
(* Tokens and JSON documents *)

Absent == "<absent>"

NoDoc == [kind |-> "none", name |-> Absent, parameters |-> Absent,
          arguments |-> Absent, input |-> Absent]

Ch(c) == [ch |-> c, doc |-> NoDoc]

Str(c) == <<Ch(c)>>

\* str.isspace, and the regular expressions' \s
Whitespace == {" ", "\n"}

\* the regular expressions' \w
WordChars == {"a", "final", "answer", "thoughts", "thinking"}

\* JSON values of the keys of a leaked tool call.  A name is a string (a tool's
\* or not) or an array; an argument value is an object or null.
ParametersDict == "{expression: 1+1}"
ArgumentsDict == "{expression: 2+2}"
InputDict == "{expression: 3+3}"
EmptyDict == "{}"
JsonNull == "null"
ListName == "[calculator]"

IsDict(v) == v \in {ParametersDict, ArgumentsDict, InputDict, EmptyDict}

NameValues == {Absent, "calculator", "no_such_tool", ListName}

\* the JSON objects a model may leak, and one JSON array
JsonDocs ==
    [kind : {"object"}, name : NameValues,
     parameters : {Absent, ParametersDict, JsonNull},
     arguments : {Absent, ArgumentsDict, JsonNull},
     input : {Absent, InputDict, JsonNull}]
    \cup {[NoDoc EXCEPT !.kind = "array"]}

Json(d) == <<[ch |-> "json", doc |-> d]>>

CalculatorCall ==
    [kind |-> "object", name |-> "calculator", parameters |-> ParametersDict,
     arguments |-> Absent, input |-> Absent]

-----------------------------------------------------------------------------
(* The tools *)

\* TOOLS = [calculator, get_weather, search_web]
TOOLS == <<"calculator", "get_weather", "search_web">>

MAX_ITERATIONS == 5

ToolNames == {TOOLS[i] : i \in DOMAIN TOOLS}

\* A tool's argument schema: calculator(expression), get_weather(city),
\* search_web(query).  invoke raises on arguments that do not fit it.
AcceptsArgs(name, args) ==
    name = "calculator" /\ args \in {ParametersDict, ArgumentsDict, InputDict}

\* The text a tool returns: every return statement of the three tools yields a
\* non-empty text (a result or an error text), which the token names by its call.
ToolOutput(name, args) ==
    <<[ch |-> "output",
       doc |-> [NoDoc EXCEPT !.kind = "call", !.name = name,
                             !.parameters = args]]>>

UnknownTool(name) ==
    <<[ch |-> "(Unknown tool: name)", doc |-> [NoDoc EXCEPT !.name = name]]>>

ToolExecutionError(name, args) ==
    <<[ch |-> "(Tool execution error: e)",
       doc |-> [NoDoc EXCEPT !.name = name, !.parameters = args]]>>

NoResponse == Str("(No response)")

\* What a call returns or raises, and the tool invocations it made.
Returned(text, calls) == [raised |-> FALSE, text |-> text, invoked |-> calls]

Raised(exc, calls) == [raised |-> TRUE, text |-> Str(exc), invoked |-> calls]

\* _execute_tool_call(name, parameters): the membership test hashes the name
\* outside the try block; the try block catches what invoke raises.
execute_tool_call(name, parameters) ==
    IF name = ListName
    THEN Raised("TypeError: unhashable type", <<>>)
    ELSE IF name \notin ToolNames
    THEN Returned(UnknownTool(name), <<>>)
    ELSE IF AcceptsArgs(name, parameters)
    THEN Returned(ToolOutput(name, parameters), <<[name |-> name, args |-> parameters]>>)
    ELSE Returned(ToolExecutionError(name, parameters),
                  <<[name |-> name, args |-> parameters]>>)

-----------------------------------------------------------------------------
(* String operations of format_response *)

RECURSIVE DropWhile(_, _)
DropWhile(s, set) ==
    IF s # <<>> /\ Head(s).ch \in set THEN DropWhile(Tail(s), set) ELSE s

\* at most n leading tokens of the set
RECURSIVE DropUpTo(_, _, _)
DropUpTo(s, set, n) ==
    IF n > 0 /\ s # <<>> /\ Head(s).ch \in set
    THEN DropUpTo(Tail(s), set, n - 1)
    ELSE s

Reverse(s) == [i \in 1..Len(s) |-> s[Len(s) + 1 - i]]

LStrip(s, set) == DropWhile(s, set)

RStrip(s, set) == Reverse(DropWhile(Reverse(s), set))

\* str.strip()
Strip(s) == RStrip(LStrip(s, Whitespace), Whitespace)

StartsWithFence(s) ==
    Len(s) >= 3 /\ s[1].ch = "backtick" /\ s[2].ch = "backtick" /\ s[3].ch = "backtick"

Drop(s, n) == SubSeq(s, n + 1, Len(s))

\* index of the first token c of s, 0 when there is none
RECURSIVE IndexOf(_, _)
IndexOf(s, c) ==
    IF s = <<>> THEN 0
    ELSE IF Head(s).ch = c THEN 1
    ELSE LET k == IndexOf(Tail(s), c) IN IF k = 0 THEN 0 ELSE k + 1

\* re.sub(r"```[\w]*\n?", "", text)
RECURSIVE StripOpeningFences(_)
StripOpeningFences(s) ==
    IF s = <<>> THEN <<>>
    ELSE IF StartsWithFence(s)
    THEN StripOpeningFences(DropUpTo(DropWhile(Drop(s, 3), WordChars), {"\n"}, 1))
    ELSE <<Head(s)>> \o StripOpeningFences(Tail(s))

\* re.sub(r"```", "", text)
RECURSIVE StripClosingFences(_)
StripClosingFences(s) ==
    IF s = <<>> THEN <<>>
    ELSE IF StartsWithFence(s) THEN StripClosingFences(Drop(s, 3))
    ELSE <<Head(s)>> \o StripClosingFences(Tail(s))

\* re.sub(r"`([^`]*)`", r"\1", text)
RECURSIVE UnwrapInlineCode(_)
UnwrapInlineCode(s) ==
    IF s = <<>> THEN <<>>
    ELSE LET close == IndexOf(Tail(s), "backtick") IN
         IF Head(s).ch = "backtick" /\ close > 0
         THEN SubSeq(s, 2, close) \o UnwrapInlineCode(Drop(s, close + 1))
         ELSE <<Head(s)>> \o UnwrapInlineCode(Tail(s))

\* re.sub(r"<[^>]+>", "", text)
RECURSIVE StripTags(_)
StripTags(s) ==
    IF s = <<>> THEN <<>>
    ELSE LET close == IndexOf(Tail(s), ">") IN
         IF Head(s).ch = "<" /\ close >= 2
         THEN StripTags(Drop(s, close + 1))
         ELSE <<Head(s)>> \o StripTags(Tail(s))

\* The rest of s after a match of final\s+answer\*{0,2}\s*:?\s* at its start,
\* as a one-element sequence; <<>> when the pattern does not match there.
MarkerAt(s) ==
    IF s # <<>> /\ Head(s).ch = "final" /\ Len(s) >= 2 /\ s[2].ch \in Whitespace
    THEN LET afterWs == DropWhile(Tail(s), Whitespace) IN
         IF afterWs # <<>> /\ Head(afterWs).ch = "answer"
         THEN <<DropWhile(
                  DropUpTo(
                    DropWhile(DropUpTo(Tail(afterWs), {"*"}, 2), Whitespace),
                    {":"}, 1),
                  Whitespace)>>
         ELSE <<>>
    ELSE <<>>

\* The text after every match of the final-answer pattern, leftmost first.
RECURSIVE MarkerTails(_)
MarkerTails(s) ==
    IF s = <<>> THEN <<>>
    ELSE MarkerAt(s) \o MarkerTails(Tail(s))

\* re.search(...): the leftmost match; text[fa_match.end():]
SearchTail(tails) == tails[1]

\* thought_pattern.sub("", text):
\* ^(thoughts?|reasoning|thinking|chain.of.thought)\s*:.*?(\n\n|\Z)
RECURSIVE AfterBlankLine(_)
AfterBlankLine(s) ==
    IF s = <<>> THEN <<>>
    ELSE IF Len(s) >= 2 /\ s[1].ch = "\n" /\ s[2].ch = "\n" THEN Drop(s, 2)
    ELSE AfterBlankLine(Tail(s))

StripThoughtBlock(s) ==
    IF s # <<>> /\ Head(s).ch \in {"thoughts", "thinking"}
    THEN LET rest == DropWhile(Tail(s), Whitespace) IN
         IF rest # <<>> /\ Head(rest).ch = ":"
         THEN AfterBlankLine(Tail(rest))
         ELSE s
    ELSE s

\* str.splitlines()
RECURSIVE SplitLines(_)
SplitLines(s) ==
    IF s = <<>> THEN <<>>
    ELSE LET nl == IndexOf(s, "\n") IN
         IF nl = 0 THEN <<s>>
         ELSE <<SubSeq(s, 1, nl - 1)>> \o SplitLines(Drop(s, nl))

\* re.match(r"(?i)^\s*(thoughts?|reasoning)\s*:", line)
IsHeaderLine(line) ==
    LET s == DropWhile(line, Whitespace) IN
    /\ s # <<>> /\ Head(s).ch = "thoughts"
    /\ LET rest == DropWhile(Tail(s), Whitespace) IN
       rest # <<>> /\ Head(rest).ch = ":"

\* [line for line in text.splitlines() if not re.match(...)]
KeptLines(lines) == SelectSeq(lines, LAMBDA line : ~IsHeaderLine(line))

\* "\n".join(lines)
RECURSIVE Join(_)
Join(lines) ==
    IF lines = <<>> THEN <<>>
    ELSE IF Len(lines) = 1 THEN Head(lines)
    ELSE Head(lines) \o Str("\n") \o Join(Tail(lines))

\* steps 2 and 3 of format_response
StripFences(s) == StripClosingFences(StripOpeningFences(s))

Cleaned(raw_text) ==
    Strip(StripTags(UnwrapInlineCode(StripFences(Strip(raw_text)))))

\* json.loads(json_candidate): the parsed document, NoDoc on JSONDecodeError
JsonLoads(raw_text) ==
    LET json_candidate == Strip(StripFences(Strip(raw_text))) IN
    IF Len(json_candidate) = 1 /\ json_candidate[1].ch = "json"
    THEN json_candidate[1].doc
    ELSE NoDoc

\* parsed.get("parameters", parsed.get("arguments", parsed.get("input", {})))
ToolParams(parsed) ==
    IF parsed.parameters # Absent THEN parsed.parameters
    ELSE IF parsed.arguments # Absent THEN parsed.arguments
    ELSE IF parsed.input # Absent THEN parsed.input
    ELSE EmptyDict

\* step 1 applies: the text is a JSON object with a "name" and mapping arguments
IsLeakedToolCall(raw_text) ==
    LET parsed == JsonLoads(raw_text) IN
    /\ parsed.kind = "object"
    /\ parsed.name # Absent
    /\ IsDict(ToolParams(parsed))

\* steps 5 to 7: the reasoning block and the header lines
WithoutThoughts(text) ==
    Strip(Join(KeptLines(SplitLines(Strip(StripThoughtBlock(text))))))

format_response(raw_text) ==
    IF raw_text = <<>> THEN Returned(NoResponse, <<>>)
    ELSE IF IsLeakedToolCall(raw_text)
    THEN execute_tool_call(JsonLoads(raw_text).name, ToolParams(JsonLoads(raw_text)))
    ELSE LET text == Cleaned(raw_text)
             tails == MarkerTails(text)
         IN  IF tails # <<>>
             THEN Returned(Strip(LStrip(Strip(SearchTail(tails)), {"*"})), <<>>)
             ELSE IF WithoutThoughts(text) = <<>>
             THEN Returned(NoResponse, <<>>)
             ELSE Returned(WithoutThoughts(text), <<>>)

-----------------------------------------------------------------------------
(* Messages and the model backend *)

NoId == <<>>

Message(type, content, tool_calls, tool_call_id) ==
    [type |-> type, content |-> content, tool_calls |-> tool_calls,
     tool_call_id |-> tool_call_id]

HumanMessage(content) == Message("human", content, <<>>, NoId)

\* SYSTEM_PROMPT = SystemMessage(content=...)
SYSTEM_PROMPT == Message("system", Str("You are a helpful, accurate AI assistant"), <<>>, NoId)

ToolMessage(content, tool_call_id) == Message("tool", content, <<>>, tool_call_id)

\* What the model backend may answer: a content (empty, blank or a text) with
\* the names of the tools it requests, in order.
Responses ==
    {[content |-> <<>>,     calls |-> <<>>],
     [content |-> Str(" "), calls |-> <<>>],
     [content |-> Str("a"), calls |-> <<>>],
     [content |-> <<>>,     calls |-> <<"calculator">>],
     [content |-> Str("a"), calls |-> <<"no_such_tool">>],
     [content |-> Str(" "), calls |-> <<"calculator", "no_such_tool">>],
     [content |-> <<>>,     calls |-> <<"calculator", "calculator">>]}

\* The AIMessage llm_with_tools.invoke returns on its n-th call of a turn; the
\* backend gives every tool request an id of its own.
AIMessage(response, n) ==
    Message("ai", response.content,
            [k \in 1..Len(response.calls) |->
                [id |-> <<n, k>>, name |-> response.calls[k], args |-> ParametersDict]],
            NoId)

APIError == Raised("APIError", <<>>)

NotCalled == Returned(Str("<not called>"), <<>>)

State == [messages |-> messages, iteration_count |-> iteration_count]

\* a state taken over from the first call in flight, as a graph with a shared
\* thread of checkpoints would resume it
InitialState_Shared(user_input) ==
    [messages |-> runs[1].state.messages \o <<HumanMessage(user_input)>>,
     iteration_count |-> runs[1].state.iteration_count]

\* run_agent: the state handed to app.invoke
InitialState(user_input) ==
    [messages |-> <<HumanMessage(user_input)>>, iteration_count |-> 0]

Runs == 1..MaxRuns

\* no call of run_agent made yet
NotRunning ==
    [pc |-> "idle", user_input |-> <<>>, llm_calls |-> 0,
     state |-> [messages |-> <<>>, iteration_count |-> 0]]

NoRuns == [r \in Runs |-> NotRunning]

-----------------------------------------------------------------------------
(* The graph: agent_node, should_continue, the tools node *)

HasSystemMessage(msgs) == \E i \in DOMAIN msgs : msgs[i].type = "system"

\* the transcript handed to the backend as it is, without the system prompt
PromptOf_NoSystem(msgs) == msgs

\* agent_node: the list handed to llm_with_tools.invoke
PromptOf(msgs) == IF ~HasSystemMessage(msgs) THEN <<SYSTEM_PROMPT>> \o msgs ELSE msgs

\* agent_node with the counter left as it was
agent_node_NoIncrement(state, response) ==
    [messages |-> <<response>>, iteration_count |-> state.iteration_count]

\* agent_node: the state update it returns
agent_node(state, response) ==
    [messages |-> <<response>>, iteration_count |-> state.iteration_count + 1]

\* a messages field without its reducer: the update overwrites the transcript
add_messages_Overwrite(left, right) == right

\* the reducer of AgentState.messages
add_messages(left, right) == left \o right

\* should_continue with > for >=
should_continue_OffByOne(state) ==
    LET last_message == state.messages[Len(state.messages)] IN
    IF state.iteration_count > MAX_ITERATIONS THEN "__end__"
    ELSE IF last_message.tool_calls # <<>> THEN "tools"
    ELSE "__end__"

\* should_continue stopping one iteration early
should_continue_EarlyCap(state) ==
    LET last_message == state.messages[Len(state.messages)] IN
    IF state.iteration_count >= MAX_ITERATIONS - 1 THEN "__end__"
    ELSE IF last_message.tool_calls # <<>> THEN "tools"
    ELSE "__end__"

should_continue(state) ==
    LET last_message == state.messages[Len(state.messages)] IN
    IF state.iteration_count >= MAX_ITERATIONS THEN "__end__"
    ELSE IF last_message.tool_calls # <<>> THEN "tools"
    ELSE "__end__"

\* graph.add_conditional_edges("agent", should_continue, {...})
ConditionalEdge(route) == IF route = "tools" THEN "tools" ELSE "end"

\* the tools node wired to END
ToolsEdge_End == "end"

\* graph.add_edge("tools", "agent")
ToolsEdge == "agent"

InvalidToolName(name) ==
    <<[ch |-> "Error: name is not a valid tool", doc |-> [NoDoc EXCEPT !.name = name]]>>

\* ToolNode(TOOLS) on one tool request
ToolResult(call) ==
    ToolMessage(IF call.name \notin ToolNames THEN InvalidToolName(call.name)
                ELSE IF AcceptsArgs(call.name, call.args)
                THEN ToolOutput(call.name, call.args)
                ELSE ToolExecutionError(call.name, call.args),
                call.id)

\* ToolNode(TOOLS): one ToolMessage per request of the last message, in order
ToolNode(state) ==
    LET calls == state.messages[Len(state.messages)].tool_calls IN
    [messages |-> [k \in 1..Len(calls) |-> ToolResult(calls[k])]]

-----------------------------------------------------------------------------
(* run_agent *)

IsBlank(text) == Strip(text) = <<>>

\* the walk taking any message with content, tool requests or not
RECURSIVE WalkBack_AnyContent(_)
WalkBack_AnyContent(msgs) ==
    IF msgs = <<>> THEN <<>>
    ELSE LET msg == msgs[Len(msgs)] IN
         IF msg.content # <<>>
         THEN msg.content
         ELSE WalkBack_AnyContent(SubSeq(msgs, 1, Len(msgs) - 1))

\* for msg in reversed(messages): if msg.content and not msg.tool_calls
RECURSIVE WalkBack(_)
WalkBack(msgs) ==
    IF msgs = <<>> THEN <<>>
    ELSE LET msg == msgs[Len(msgs)] IN
         IF msg.content # <<>> /\ ~(msg.tool_calls # <<>>)
         THEN msg.content
         ELSE WalkBack(SubSeq(msgs, 1, Len(msgs) - 1))

\* run_agent, lines 270-279
RawAnswer(msgs) ==
    LET last_msg == msgs[Len(msgs)] IN
    IF ~IsBlank(last_msg.content) THEN last_msg.content
    ELSE IF WalkBack(msgs) # <<>> THEN WalkBack(msgs)
    ELSE last_msg.content

-----------------------------------------------------------------------------
(* The turn of one process *)

\* what the user may type: nothing, a blank, a question (bare or after a blank)
UserTexts == {<<>>, Str(" "), Str("a"), <<Ch(" "), Ch("a")>>}

\* the CLI also reads its exit words ("exit", "quit", in any case)
UserLines == UserTexts \cup {Str("exit"), <<Ch("exit"), Ch("\n")>>}

StartTurn(user_input) ==
    /\ pc' = "agent"
    /\ messages' = <<HumanMessage(user_input)>>
    /\ iteration_count' = 0
    /\ prompt' = <<>>
    /\ llm_calls' = 0
    /\ tool_rounds' = 0
    /\ raw_answer' = <<>>
    /\ answer' = NotCalled
    /\ shown' = <<>>
    /\ turns' = turns + 1

\* run_agent is over: its graph, its state and its locals are gone.
EndTurn ==
    /\ pc' = "idle"
    /\ messages' = <<>>
    /\ iteration_count' = 0
    /\ prompt' = <<>>
    /\ llm_calls' = 0
    /\ tool_rounds' = 0
    /\ raw_answer' = <<>>
    /\ answer' = NotCalled

\* The process is gone: its state with it.
Stop(how, last) ==
    /\ process' = how
    /\ pc' = "idle"
    /\ messages' = <<>>
    /\ iteration_count' = 0
    /\ prompt' = <<>>
    /\ raw_answer' = <<>>
    /\ answer' = last
    /\ chat_history' = <<>>
    /\ shown' = <<>>
    /\ UNCHANGED <<surface, llm_calls, tool_rounds, turns, raw, formatted, runs>>

\* agent.py, the CLI loop: one line read
CliInput(line) ==
    /\ surface = "cli" /\ process = "serving" /\ pc = "idle"
    /\ turns < MaxTurns
    /\ LET user_input == Strip(line) IN
       IF user_input = Str("exit")
       THEN Stop("exited", NotCalled)
       ELSE IF user_input # <<>>
       THEN /\ StartTurn(user_input)
            /\ UNCHANGED <<surface, process, chat_history, raw, formatted, runs>>
       ELSE UNCHANGED vars

\* agent.py, the CLI loop: except KeyboardInterrupt
KeyboardInterrupt ==
    /\ surface = "cli" /\ process = "serving"
    /\ Stop("exited", NotCalled)

\* streamlit_app.py: if send and user_input.strip()
UiSend(text) ==
    /\ surface = "ui" /\ process = "serving" /\ pc = "idle"
    /\ turns < MaxTurns
    /\ Strip(text) # <<>>
    /\ StartTurn(Strip(text))
    /\ UNCHANGED <<surface, process, chat_history, raw, formatted, runs>>

\* the agent node of the graph
AgentNode ==
    /\ process = "serving" /\ pc = "agent"
    /\ prompt' = PromptOf(messages)
    /\ llm_calls' = llm_calls + 1
    /\ \/ \E response \in Responses :
            LET update == agent_node(State, AIMessage(response, llm_calls + 1)) IN
            /\ messages' = add_messages(messages, update.messages)
            /\ iteration_count' = update.iteration_count
            /\ pc' = "route"
            /\ UNCHANGED answer
       \/ /\ pc' = "raised"
          /\ answer' = APIError
          /\ UNCHANGED <<messages, iteration_count>>
    /\ UNCHANGED <<surface, process, tool_rounds, raw_answer, chat_history,
                   shown, turns, raw, formatted, runs>>

\* the conditional edge out of the agent node
ShouldContinue ==
    /\ process = "serving" /\ pc = "route"
    /\ pc' = ConditionalEdge(should_continue(State))
    /\ UNCHANGED <<surface, process, messages, iteration_count, prompt,
                   llm_calls, tool_rounds, raw_answer, answer, chat_history,
                   shown, turns, raw, formatted, runs>>

\* the tools node of the graph and its edge back
ToolsNode ==
    /\ process = "serving" /\ pc = "tools"
    /\ messages' = add_messages(messages, ToolNode(State).messages)
    /\ tool_rounds' = tool_rounds + 1
    /\ pc' = ToolsEdge
    /\ UNCHANGED <<surface, process, iteration_count, prompt, llm_calls,
                   raw_answer, answer, chat_history, shown, turns, raw,
                   formatted, runs>>

\* run_agent after app.invoke returned: lines 270-285
RunAgentReturn ==
    /\ process = "serving" /\ pc = "end"
    /\ raw_answer' = RawAnswer(messages)
    /\ answer' = format_response(RawAnswer(messages))
    /\ pc' = IF format_response(RawAnswer(messages)).raised THEN "raised" ELSE "returned"
    /\ shown' = IF surface = "cli" /\ ~format_response(RawAnswer(messages)).raised
                THEN format_response(RawAnswer(messages)).text
                ELSE shown
    /\ UNCHANGED <<surface, process, messages, iteration_count, prompt,
                   llm_calls, tool_rounds, chat_history, turns, raw, formatted, runs>>

\* agent.py, the CLI loop: run_agent(user_input) is over
CliTurnOver ==
    /\ surface = "cli" /\ process = "serving"
    /\ \/ /\ pc = "returned"
          /\ EndTurn
          /\ UNCHANGED <<surface, process, chat_history, shown, turns, raw,
                         formatted, runs>>
       \/ /\ pc = "raised"
          /\ Stop("crashed", answer)

SomethingWentWrong(e) == Str("Something went wrong: ") \o e

\* streamlit_app.py, lines 203-212
UiTurnOver ==
    /\ surface = "ui" /\ process = "serving"
    /\ pc \in {"returned", "raised"}
    /\ LET final_answer == IF pc = "raised" THEN SomethingWentWrong(answer.text)
                           ELSE answer.text
       IN  chat_history' = Append(chat_history,
                                  [question |-> messages[1].content,
                                   answer |-> final_answer])
    /\ EndTurn
    /\ UNCHANGED <<surface, process, shown, turns, raw, formatted, runs>>

\* streamlit_app.py, lines 215-222
UiClear ==
    /\ surface = "ui" /\ process = "serving" /\ pc = "idle"
    /\ chat_history # <<>>
    /\ chat_history' = <<>>
    /\ UNCHANGED <<surface, process, pc, messages, iteration_count, prompt,
                   llm_calls, tool_rounds, raw_answer, answer, shown, turns,
                   raw, formatted, runs>>

Init ==
    /\ surface \in {"cli", "ui"}
    /\ process = "serving"
    /\ pc = "idle"
    /\ messages = <<>>
    /\ iteration_count = 0
    /\ prompt = <<>>
    /\ llm_calls = 0
    /\ tool_rounds = 0
    /\ raw_answer = <<>>
    /\ answer = NotCalled
    /\ chat_history = <<>>
    /\ shown = <<>>
    /\ turns = 0
    /\ raw = <<>>
    /\ formatted = NotCalled
    /\ runs = NoRuns

Next ==
    \/ \E line \in UserLines : CliInput(line)
    \/ KeyboardInterrupt
    \/ \E text \in UserTexts : UiSend(text)
    \/ AgentNode
    \/ ShouldContinue
    \/ ToolsNode
    \/ RunAgentReturn
    \/ CliTurnOver
    \/ UiTurnOver
    \/ UiClear

Spec == Init /\ [][Next]_vars

\* app.invoke runs the graph: a node or an edge that can run does run.  No
\* fairness is assumed of the user or of the surface.
FairSpec ==
    Spec /\ WF_vars(AgentNode) /\ WF_vars(ShouldContinue) /\ WF_vars(ToolsNode)

-----------------------------------------------------------------------------
(* format_response called on its own, on every text of a bounded set *)

Segments ==
    {Str("a"), Str(" "), Str("\n"), Str("*"), Str(":"), Str("backtick"),
     Str("<"), Str(">"), Str("final"), Str("thoughts"), Str("thinking"),
     <<Ch("final"), Ch(" "), Ch("answer")>>,
     <<Ch("backtick"), Ch("backtick"), Ch("backtick")>>,
     Json(CalculatorCall)}

RECURSIVE Texts(_)
Texts(n) ==
    IF n = 0 THEN {<<>>}
    ELSE Texts(n - 1) \cup {t \o seg : t \in Texts(n - 1), seg \in Segments}

Fence == <<Ch("backtick"), Ch("backtick"), Ch("backtick")>>

\* a JSON document, bare or in a code fence or with text around it
LeakedTexts ==
    {pre \o Json(d) \o post :
        pre \in {<<>>, Fence \o Str("a") \o Str("\n"), Str(" "), Str("a")},
        post \in {<<>>, Str("\n") \o Fence, Str("a")},
        d \in JsonDocs}

RawTexts == Texts(MaxSegs) \cup LeakedTexts

FormatInit ==
    /\ surface = "cli"
    /\ process = "serving"
    /\ pc = "idle"
    /\ messages = <<>>
    /\ iteration_count = 0
    /\ prompt = <<>>
    /\ llm_calls = 0
    /\ tool_rounds = 0
    /\ raw_answer = <<>>
    /\ answer = NotCalled
    /\ chat_history = <<>>
    /\ shown = <<>>
    /\ turns = 0
    /\ raw \in RawTexts
    /\ formatted = NotCalled
    /\ runs = NoRuns

FormatResponseCall ==
    /\ formatted = NotCalled
    /\ formatted' = format_response(raw)
    /\ UNCHANGED <<loopVars, raw, runs>>

FormatNext == FormatResponseCall

FormatSpec == FormatInit /\ [][FormatNext]_vars

-----------------------------------------------------------------------------
(* run_agent called from several sessions at once: each call builds its own
   graph and its own state; the steps of the calls interleave *)

RunInputs == {Str("a"), Str("b")}

\* the backend answers with a text, alone or with a tool request
RunResponses == {response \in Responses : response.content = Str("a")}

\* run_agent(user_input): build_agent() and app.invoke on a new state; the
\* final state of an earlier call of the session is a local that is gone
RunInvoke(r, user_input) ==
    /\ runs[r].pc \in {"idle", "end", "raised"}
    /\ runs' = [runs EXCEPT ![r] = [pc |-> "agent", user_input |-> user_input,
                                    llm_calls |-> 0,
                                    state |-> InitialState(user_input)]]
    /\ UNCHANGED <<loopVars, raw, formatted>>

RunAgentNode(r) ==
    /\ runs[r].pc = "agent"
    /\ \/ \E response \in RunResponses :
            LET update == agent_node(runs[r].state,
                                     AIMessage(response, runs[r].llm_calls + 1))
            IN  runs' = [runs EXCEPT
                    ![r].state.messages = add_messages(@, update.messages),
                    ![r].state.iteration_count = update.iteration_count,
                    ![r].llm_calls = @ + 1,
                    ![r].pc = "route"]
       \/ runs' = [runs EXCEPT ![r].llm_calls = @ + 1, ![r].pc = "raised"]
    /\ UNCHANGED <<loopVars, raw, formatted>>

RunShouldContinue(r) ==
    /\ runs[r].pc = "route"
    /\ runs' = [runs EXCEPT ![r].pc = ConditionalEdge(should_continue(runs[r].state))]
    /\ UNCHANGED <<loopVars, raw, formatted>>

RunToolsNode(r) ==
    /\ runs[r].pc = "tools"
    /\ runs' = [runs EXCEPT
            ![r].state.messages = add_messages(@, ToolNode(runs[r].state).messages),
            ![r].pc = ToolsEdge]
    /\ UNCHANGED <<loopVars, raw, formatted>>

RunsInit ==
    /\ surface = "ui"
    /\ process = "serving"
    /\ pc = "idle"
    /\ messages = <<>>
    /\ iteration_count = 0
    /\ prompt = <<>>
    /\ llm_calls = 0
    /\ tool_rounds = 0
    /\ raw_answer = <<>>
    /\ answer = NotCalled
    /\ chat_history = <<>>
    /\ shown = <<>>
    /\ turns = 0
    /\ raw = <<>>
    /\ formatted = NotCalled
    /\ runs = NoRuns

RunsNext ==
    \E r \in Runs :
        \/ \E user_input \in RunInputs : RunInvoke(r, user_input)
        \/ RunAgentNode(r)
        \/ RunShouldContinue(r)
        \/ RunToolsNode(r)

RunsSpec == RunsInit /\ [][RunsNext]_vars

-----------------------------------------------------------------------------
(* The claims *)

Last(s) == s[Len(s)]

AIMessages == SelectSeq(messages, LAMBDA m : m.type = "ai")

InTurn == pc \in {"agent", "route", "tools", "end", "returned"}

\* C1: in a turn the iteration counter equals the number of completed model
\* invocations, and once it has reached MAX_ITERATIONS the loop is never at the
\* tools node nor back at the agent node, whatever the last message requests.
C1_IterationGuard ==
    /\ InTurn => iteration_count = llm_calls
    /\ iteration_count >= MAX_ITERATIONS => pc \notin {"tools", "agent"}
    /\ iteration_count <= MAX_ITERATIONS

\* the cap cut a turn whose last message requests a tool
C1_Witness ==
    /\ pc = "end"
    /\ iteration_count = MAX_ITERATIONS
    /\ Last(messages).tool_calls # <<>>

\* C2: every turn ends: at most MAX_ITERATIONS model invocations and
\* MAX_ITERATIONS - 1 rounds of tools are made, and a turn at the agent node
\* eventually reaches the end of the graph (or the model invocation fails, or
\* the user interrupts the process).
C2_TurnTerminates ==
    /\ [](llm_calls <= MAX_ITERATIONS /\ tool_rounds <= MAX_ITERATIONS - 1)
    /\ (pc = "agent") ~> (pc \in {"end", "raised"} \/ process # "serving")

\* a backend that requested a tool in every response
C2_Witness ==
    /\ pc = "end"
    /\ llm_calls = MAX_ITERATIONS
    /\ tool_rounds = MAX_ITERATIONS - 1
    /\ \A i \in DOMAIN AIMessages : AIMessages[i].tool_calls # <<>>

Called == formatted # NotCalled

\* C3: when the cleaned text holds final-answer markers, format_response
\* returns the text after the last of them, stripped.
C3_AfterLastMarker ==
    (Called /\ raw # <<>> /\ ~IsLeakedToolCall(raw)
        /\ MarkerTails(Cleaned(raw)) # <<>>)
    => formatted.text =
          Strip(LStrip(Strip(Last(MarkerTails(Cleaned(raw)))), {"*"}))

\* C4: format_response never returns an empty text.
C4_NeverEmpty == (Called /\ ~formatted.raised) => formatted.text # <<>>

\* C5, as claimed: the raw answer is the last message's content, or when that
\* is empty the content of the nearest earlier message with content that is
\* not a tool-call-only assistant message; with none, the answer is
\* "(No response)".
ClaimedEligible(i) ==
    /\ i < Len(messages)
    /\ messages[i].content # <<>>
    /\ ~(messages[i].type = "ai" /\ messages[i].tool_calls # <<>>
            /\ messages[i].content = <<>>)

C5_RawAnswerAsClaimed ==
    pc = "returned" =>
        IF Last(messages).content # <<>>
        THEN raw_answer = Last(messages).content
        ELSE IF \E i \in DOMAIN messages : ClaimedEligible(i)
        THEN \E i \in DOMAIN messages :
                /\ ClaimedEligible(i)
                /\ \A j \in DOMAIN messages : ClaimedEligible(j) => j <= i
                /\ raw_answer = messages[i].content
        ELSE answer.text = NoResponse

\* C5, amended: the raw answer is the last message's content unless that is
\* empty or blank; then it is the content of the nearest message, the last
\* one included, that has content and requests no tool; with none, the answer
\* is "(No response)".
Eligible(i) == messages[i].content # <<>> /\ messages[i].tool_calls = <<>>

C5_RawAnswer ==
    pc = "returned" =>
        IF ~IsBlank(Last(messages).content)
        THEN raw_answer = Last(messages).content
        ELSE IF \E i \in DOMAIN messages : Eligible(i)
        THEN \E i \in DOMAIN messages :
                /\ Eligible(i)
                /\ \A j \in DOMAIN messages : Eligible(j) => j <= i
                /\ raw_answer = messages[i].content
        ELSE answer.text = NoResponse

\* a blank last message that requests tools, after an assistant message with
\* content and tool requests: the raw answer is the last tool result
C5_Witness ==
    /\ pc = "returned"
    /\ IsBlank(Last(messages).content)
    /\ Last(messages).tool_calls # <<>>
    /\ \E i \in DOMAIN messages :
          /\ messages[i].type = "ai" /\ i < Len(messages)
          /\ messages[i].content # <<>> /\ messages[i].tool_calls # <<>>
    /\ raw_answer = messages[Len(messages) - 1].content
    /\ messages[Len(messages) - 1].type = "tool"

\* C6: once the model has been invoked in a turn, the transcript of the loop
\* state holds exactly one system message, and it is the first message.
C6_OneSystemMessageFirst ==
    (InTurn /\ llm_calls >= 1) =>
        /\ Cardinality({i \in DOMAIN messages : messages[i].type = "system"}) = 1
        /\ messages[1].type = "system"

\* C7: a text that parses as a JSON object with a "name" whose arguments (the
\* first present of parameters, arguments, input, else {}) are a mapping makes
\* format_response return the named tool's result, invoking a tool at most
\* once; any other text invokes no tool and goes through the rest of the
\* pipeline.
ClaimedArgs(parsed) ==
    IF parsed.parameters # Absent THEN parsed.parameters
    ELSE IF parsed.arguments # Absent THEN parsed.arguments
    ELSE IF parsed.input # Absent THEN parsed.input
    ELSE EmptyDict

C7_LeakedToolCallRecovery ==
    Called /\ raw # <<>> =>
        LET parsed == JsonLoads(raw) IN
        IF parsed.kind = "object" /\ parsed.name # Absent
            /\ IsDict(ClaimedArgs(parsed))
        THEN /\ ~formatted.raised
             /\ formatted.text \in
                   {ToolOutput(parsed.name, ClaimedArgs(parsed)),
                    UnknownTool(parsed.name),
                    ToolExecutionError(parsed.name, ClaimedArgs(parsed))}
             /\ Len(formatted.invoked) <= 1
             /\ \A k \in DOMAIN formatted.invoked :
                   formatted.invoked[k] =
                       [name |-> parsed.name, args |-> ClaimedArgs(parsed)]
        ELSE /\ formatted.invoked = <<>>
             /\ ~formatted.raised

\* C8: a failed model invocation is not retried in its turn, never ends the
\* process, and the chat UI shows it as the turn's answer.
C8_ModelFailureSurfaced ==
    [][(pc = "raised" /\ answer = APIError) =>
          /\ llm_calls' <= llm_calls
          /\ tool_rounds' <= tool_rounds
          /\ process' # "crashed"
          /\ (surface = "ui" /\ pc' = "idle" /\ process' = "serving") =>
                /\ chat_history' # <<>>
                /\ Last(chat_history').answer = SomethingWentWrong(APIError.text)]_vars

\* C9: below the cap a requested tool, known or not, takes the loop to the
\* tools node; the tools node answers a request for an unknown tool with a
\* tool message that carries the request's id and an error text, and hands
\* control back to the agent node.
C9_UnknownToolContinues ==
    [][/\ (pc = "route" /\ pc' # "route" /\ process' = "serving"
            /\ iteration_count < MAX_ITERATIONS /\ Last(messages).tool_calls # <<>>)
          => pc' = "tools"
       /\ (tool_rounds' = tool_rounds + 1) =>
            /\ pc' = "agent"
            /\ iteration_count' = iteration_count
            /\ \A k \in DOMAIN Last(messages).tool_calls :
                  LET call == Last(messages).tool_calls[k] IN
                  call.name \notin ToolNames =>
                      /\ Len(messages') >= Len(messages) + k
                      /\ messages'[Len(messages) + k] =
                            ToolMessage(InvalidToolName(call.name), call.id)]_vars

\* the agent node is about to run again after an unknown tool was answered
C9_Witness ==
    /\ pc = "agent"
    /\ tool_rounds >= 1
    /\ Last(messages).type = "tool"
    /\ Last(messages).content = InvalidToolName("no_such_tool")

\* C10: at the end of the graph every assistant message but the last requested
\* a tool, and the last requested none unless it is the MAX_ITERATIONS-th; the
\* turn made one model invocation per assistant message and one round of
\* tools between two of them.
C10_StopsAtFirstAnswer ==
    pc = "end" =>
        /\ llm_calls = Len(AIMessages)
        /\ tool_rounds = llm_calls - 1
        /\ \A i \in 1..(Len(AIMessages) - 1) : AIMessages[i].tool_calls # <<>>
        /\ Last(AIMessages).tool_calls = <<>> \/ llm_calls = MAX_ITERATIONS

\* two responses requested tools and the third did not
C10_Witness ==
    /\ pc = "end"
    /\ llm_calls = 3
    /\ tool_rounds = 2
    /\ Last(messages).tool_calls = <<>>

\* the transcript is left extended by the content-independent shape of one round
\* of tools: one tool message per request of the message msg, in request order,
\* each carrying the id of its request
AnswersInOrder(before, after, msg) ==
    /\ Len(after) = Len(before) + Len(msg.tool_calls)
    /\ SubSeq(after, 1, Len(before)) = before
    /\ \A k \in DOMAIN msg.tool_calls :
          /\ after[Len(before) + k].type = "tool"
          /\ after[Len(before) + k].tool_call_id = msg.tool_calls[k].id

\* C11: a step of the tools node appends exactly one tool message per request
\* of the latest assistant message, in request order and each linked to its
\* request's id, leaves the earlier messages and iteration_count as they were
\* and hands control to the agent node; the agent node is left only by a model
\* invocation (or by the process stopping), and the end of the graph is reached
\* only from the conditional edge that follows a model invocation.
C11_ToolRound ==
    [][/\ (pc = "tools" /\ pc' # "tools" /\ process' = "serving") =>
            /\ Last(messages).type = "ai"
            /\ AnswersInOrder(messages, messages', Last(messages))
            /\ iteration_count' = iteration_count
            /\ pc' = "agent"
       /\ (pc = "agent" /\ pc' # "agent" /\ process' = "serving") =>
            /\ llm_calls' = llm_calls + 1
            /\ pc' \in {"route", "raised"}
       /\ (pc # "end" /\ pc' = "end") => pc = "route"]_vars

\* a round of tools has answered two requests for the same tool, and the agent
\* node is about to invoke the model again
C11_Witness ==
    /\ pc = "agent"
    /\ tool_rounds >= 1
    /\ Len(messages) >= 3
    /\ LET msg == messages[Len(messages) - 2] IN
       /\ msg.type = "ai"
       /\ Len(msg.tool_calls) = 2
       /\ msg.tool_calls[1].name = msg.tool_calls[2].name
       /\ AnswersInOrder(SubSeq(messages, 1, Len(messages) - 2), messages, msg)
       /\ messages[Len(messages) - 1].content = messages[Len(messages)].content

\* the transcript of a call holds nothing but the call's own turn: its own
\* question first, then its own model responses and the results of their
\* requests, and its counter counts its own model invocations
OwnTurnOnly(run) ==
    LET msgs == run.state.messages IN
    /\ msgs[1] = HumanMessage(run.user_input)
    /\ \A i \in 2..Len(msgs) : msgs[i].type \in {"ai", "tool"}
    /\ run.state.iteration_count =
          Cardinality({i \in DOMAIN msgs : msgs[i].type = "ai"})
    /\ run.state.iteration_count \in {run.llm_calls, run.llm_calls - 1}
    /\ \A i \in DOMAIN msgs :
          msgs[i].type = "tool" =>
              \E j \in 1..(i - 1) : \E k \in DOMAIN msgs[j].tool_calls :
                  /\ msgs[j].tool_calls[k].id = msgs[i].tool_call_id
                  /\ i = j + k

\* C12: a call of run_agent starts from a state of its own, transcript =
\* [human(user_input)] and iteration_count = 0, whatever an earlier call of the
\* session or a call in flight has reached; a step of one call leaves the
\* transcript and the counter of every other call as they were; and at every
\* time a call's transcript and counter hold its own turn only.
C12_RunsIsolated ==
    [][\A r \in Runs :
          /\ (runs[r].pc \in {"idle", "end", "raised"} /\ runs'[r].pc = "agent") =>
                runs'[r].state = [messages |-> <<HumanMessage(runs'[r].user_input)>>,
                                 iteration_count |-> 0]
          /\ runs'[r] # runs[r] =>
                \A other \in Runs \ {r} : runs'[other] = runs[other]
          /\ runs'[r].pc # "idle" => OwnTurnOnly(runs'[r])]_vars

\* two calls are in flight on different questions: one has made two model
\* invocations and waits for its tools, the other has just started and has
\* made none yet
C12_Witness ==
    \E r, other \in Runs :
        /\ r # other
        /\ runs[r].pc = "tools" /\ runs[r].state.iteration_count = 2
        /\ Len(runs[r].state.messages) = 4
        /\ runs[other].pc = "agent" /\ runs[other].state.iteration_count = 0
        /\ runs[other].state.messages = <<HumanMessage(runs[other].user_input)>>
        /\ runs[r].user_input # runs[other].user_input

\* C13: when the text parses as a JSON object with a "name" key, of any value,
\* and mapping arguments, format_response returns a text and raises nothing:
\* "(Unknown tool: <name>)" for a name that is not in the registry, else the
\* tool's output, or "(Tool execution error: ...)" when the invocation fails.
C13_NoExceptionEscapes ==
    (Called /\ IsLeakedToolCall(raw)) =>
        LET parsed == JsonLoads(raw) IN
        /\ ~formatted.raised
        /\ formatted.text =
              IF parsed.name \notin ToolNames THEN UnknownTool(parsed.name)
              ELSE IF AcceptsArgs(parsed.name, ToolParams(parsed))
              THEN ToolOutput(parsed.name, ToolParams(parsed))
              ELSE ToolExecutionError(parsed.name, ToolParams(parsed))

\* C14: every model invocation of a turn, the first to the MAX_ITERATIONS-th,
\* is handed a list that holds exactly one system message, the system prompt,
\* in first position, followed by the whole transcript accumulated so far in
\* order: the human message, then every assistant and tool message appended.
C14_PromptToBackend ==
    [][llm_calls' = llm_calls + 1 =>
          /\ llm_calls' \in 1..MAX_ITERATIONS
          /\ prompt' = <<SYSTEM_PROMPT>> \o messages
          /\ Cardinality({i \in DOMAIN prompt' : prompt'[i].type = "system"}) = 1
          /\ prompt'[2].type = "human"
          /\ \A i \in 3..Len(prompt') : prompt'[i].type \in {"ai", "tool"}]_vars

\* the MAX_ITERATIONS-th invocation of a turn was handed the system prompt, the
\* question, four assistant messages and the results of their tools
C14_Witness ==
    /\ pc = "route"
    /\ llm_calls = MAX_ITERATIONS
    /\ tool_rounds = MAX_ITERATIONS - 1
    /\ prompt = <<SYSTEM_PROMPT>> \o SubSeq(messages, 1, Len(messages) - 1)
    /\ Len(prompt) >= 2 * MAX_ITERATIONS
    /\ Last(prompt).type = "tool"

=============================================================================
